---- MODULE Spec2Model ----
(***************************************************************************)
(* knowledge_base_agent: the entry point run and the three operations of   *)
(* KnowledgeBaseAgent (store, query, clear) over the knowledge-base        *)
(* client facade (market_kb.create / market_kb.run).                       *)
(*                                                                         *)
(* One request is handled at a time.  Every `await` of the code is a       *)
(* suspension point: an action runs the code from one await to the next.   *)
(* The facade is the environment: each awaited call either returns or      *)
(* raises.                                                                 *)
(***************************************************************************)
EXTENDS Integers, Sequences, FiniteSets, TLC

VARIABLES
    jsonImported,  \* is the name `json` bound in run.py's globals (only the __main__ block imports it)
    pc,            \* where the request is suspended
    module_run,    \* the inbound request
    op,            \* the attribute of the agent that run called ("none" before dispatch)
    kb_run_input,  \* the last KBRunInput built by _create_kb_input (NoEnvelope if none)
    calls,         \* facade calls invoked for this request, in order
    kb_response,   \* the reply market_kb.run returned (NoReply if none)
    raised,        \* the last fault raised while handling this request (NoFault if none)
    result,        \* the dict returned to the caller (NoResult if none yet)
    escaped        \* the fault that propagated out of run to the caller (NoFault if none)

vars == <<jsonImported, pc, module_run, op, kb_run_input, calls, kb_response,
          raised, result, escaped>>

----------------------------------------------------------------------------
(* Bounds of the model *)

MaxTopK == 3        \* integer top_k values range over -1 .. MaxTopK
MaxItems == 2       \* the backend's data sequence has at most MaxItems items

(* Program constant *)
DefaultTopK == 2    \* QueryInput.top_k default

----------------------------------------------------------------------------
(* Values *)

Absent == "<absent>"            \* a key that the mapping does not have
NotAString == "<not a string>"  \* a value of another type where a str is declared
NotAMapping == "<not a mapping>"

\* top_k as the payload carries it: absent, an int, a str holding a numeral,
\* or a str that holds none
TopKAbsent == [t |-> "absent", v |-> 0]
TopKInt(n) == [t |-> "int", v |-> n]
TopKValues ==
    {TopKAbsent, [t |-> "str_other", v |-> 0]}
      \cup {TopKInt(n) : n \in -1 .. MaxTopK}
      \cup {[t |-> "str_numeral", v |-> n] : n \in {0, MaxTopK}}

TextValues == {Absent, NotAString, "", "hello world"}
QueryValues == {Absent, NotAString, "", "hello"}
MetadataValues == {Absent, NotAMapping, "{source: unit-test}"}

\* func_input_data of the inbound request: null, something that is no mapping,
\* or a mapping: one with the keys of a store payload, one with the keys of a
\* query payload, or one with the keys of both
NullData == [kind |-> "null", text |-> Absent, metadata |-> Absent,
             query |-> Absent, top_k |-> TopKAbsent]
StorePayloads == [kind : {"map"}, text : TextValues, metadata : MetadataValues,
                  query : {Absent}, top_k : {TopKAbsent}]
QueryPayloads == [kind : {"map"}, text : {Absent}, metadata : {Absent},
                  query : QueryValues, top_k : TopKValues]
BothPayloads == [kind : {"map"}, text : {"hello world"}, metadata : {Absent},
                 query : {"hello"}, top_k : {TopKAbsent, TopKInt(1)}]
InputData == {NullData, [NullData EXCEPT !.kind = "not_a_mapping"]}
               \cup StorePayloads \cup QueryPayloads \cup BothPayloads

Operations == {"store", "query", "clear"}
OtherAttributes == {"deployment", "consumer_id", "market_kb", "_create_kb_input"}
FuncNames == Operations \cup OtherAttributes \cup {"nonexistent", NotAString}

\* the inbound request; well_formed: AgentRunInput accepts the outer shape;
\* kb_deployments: how many knowledge-base deployments the deployment names
Requests == [well_formed : BOOLEAN, kb_deployments : {0, 1},
             consumer_id : {"", "user:1"}, signature : {"sig"},
             func_name : FuncNames, func_input_data : InputData]
NoRequest == [well_formed |-> FALSE, kb_deployments |-> 0, consumer_id |-> "",
              signature |-> "", func_name |-> NotAString, func_input_data |-> NullData]

\* faults (Python exceptions): the class and str(e)
Fault(type, text) == [type |-> type, text |-> text]
NoFault == Fault("none", "")
TransportFaults == {Fault("ConnectionError", "node unreachable"),
                    Fault("HTTPStatusError", "401 unauthorized")}

\* a message is the sequence of the pieces the f-string joins; <<>> is no message
NoMessage == <<>>
Str(e) == <<e.text>>

\* results as a mapping value: kind "absent" (no such key), "list" (a list:
\* data), "json" (json.dumps(data)), and for backend replies "empty" ([]),
\* "malformed" (results[0] is not the doubly encoded JSON) and "encoded"
\* (results[0] decodes to {"results": [<JSON of {"data": data}>]})
Results(kind, data) == [kind |-> kind, data |-> data]
NoResults == Results("absent", <<>>)

Dict(status, message, results) ==
    [status |-> status, message |-> message, results |-> results]
NoResult == Dict("<no result>", NoMessage, NoResults)
NoReply == Dict("<no reply>", NoMessage, NoResults)

DataSeqs == UNION {[1 .. n -> {"item"}] : n \in 0 .. MaxItems}
ReplyResults == {NoResults, Results("empty", <<>>), Results("malformed", <<>>)}
                  \cup {Results("encoded", d) : d \in DataSeqs}
\* the dump of the run object market_kb.run returns
Replies == [status : {Absent, "completed", "success", "error", "pending"},
            message : {NoMessage, <<"backend message">>},
            results : ReplyResults]

NoEnvelope == [func_name |-> "<none>", func_input_data |-> NullData,
               consumer_id |-> "", signature |-> "", deployment |-> "<none>"]

----------------------------------------------------------------------------
(* schemas.py: what the pydantic models accept, and what they hold *)

\* InputSchema(**module_run.inputs): func_name is a required str,
\* func_input_data an optional mapping
InputSchemaFault(req) ==
    IF req.func_name = NotAString
    THEN Fault("ValidationError", "func_name: Input should be a valid string")
    ELSE IF req.func_input_data.kind = "not_a_mapping"
    THEN Fault("ValidationError", "func_input_data: Input should be a valid dictionary")
    ELSE NoFault

\* StoreInput with text given a default: a payload without text passes
StoreInputNoTextCheck(data) ==
    IF data.kind # "map"
    THEN Fault("TypeError", "argument after ** must be a mapping")
    ELSE IF data.metadata = NotAMapping
    THEN Fault("ValidationError", "metadata: Input should be a valid dictionary")
    ELSE NoFault

\* StoreInput(**data): text is a required str, metadata a mapping (default {})
StoreInputFault(data) ==
    IF data.kind # "map"
    THEN Fault("TypeError", "argument after ** must be a mapping")
    ELSE IF data.text = Absent
    THEN Fault("ValidationError", "text: Field required")
    ELSE IF data.text = NotAString
    THEN Fault("ValidationError", "text: Input should be a valid string")
    ELSE IF data.metadata = NotAMapping
    THEN Fault("ValidationError", "metadata: Input should be a valid dictionary")
    ELSE NoFault

\* store_input.model_dump(): the declared fields only, the default filled in
StoreInputDump(data) ==
    [kind |-> "map", text |-> data.text,
     metadata |-> IF data.metadata = Absent THEN "{}" ELSE data.metadata,
     query |-> Absent, top_k |-> TopKAbsent]

\* QueryInput with query given a default: a payload without query passes
QueryInputNoQueryCheck(data) ==
    IF data.kind # "map"
    THEN Fault("TypeError", "argument after ** must be a mapping")
    ELSE IF data.top_k.t = "str_other"
    THEN Fault("ValidationError", "top_k: Input should be a valid integer")
    ELSE NoFault

\* QueryInput(**data): query is a required str; top_k an int (a str holding a
\* numeral is coerced to it), default 2.  Neither field is constrained further.
QueryInputFault(data) ==
    IF data.kind # "map"
    THEN Fault("TypeError", "argument after ** must be a mapping")
    ELSE IF data.query = Absent
    THEN Fault("ValidationError", "query: Field required")
    ELSE IF data.query = NotAString
    THEN Fault("ValidationError", "query: Input should be a valid string")
    ELSE IF data.top_k.t = "str_other"
    THEN Fault("ValidationError", "top_k: Input should be a valid integer")
    ELSE NoFault

\* QueryInput with another default for top_k
QueryInputTopKDefaultThree(top_k) ==
    IF top_k.t = "absent" THEN TopKInt(DefaultTopK + 1) ELSE TopKInt(top_k.v)

\* query_input.top_k of a payload that QueryInput accepted
QueryInputTopK(top_k) ==
    IF top_k.t = "absent" THEN TopKInt(DefaultTopK) ELSE TopKInt(top_k.v)

----------------------------------------------------------------------------
(* run.py: KnowledgeBaseAgent *)

\* _create_kb_input: the envelope for the backend
CreateKbInput(func_name, signature, func_input_data) ==
    [consumer_id |-> module_run.consumer_id,
     func_name |-> func_name,
     func_input_data |-> func_input_data,
     deployment |-> "kb_deployments[0]",
     signature |-> signature]

\* kb_query_data of query
KbQueryData(data) ==
    [kind |-> "map", text |-> Absent, metadata |-> Absent,
     query |-> data.query, top_k |-> QueryInputTopK(data.top_k)]

StoreKbInput(req) ==
    CreateKbInput("ingest_knowledge", req.signature, StoreInputDump(req.func_input_data))

QueryKbInput(req) ==
    CreateKbInput("search", req.signature, KbQueryData(req.func_input_data))

\* clear passing the request's func_input_data on
ClearKbInputForwardsData(req) ==
    CreateKbInput("clear", req.signature, req.func_input_data)

\* clear leaves func_input_data at _create_kb_input's default, None
ClearKbInput(req) ==
    CreateKbInput("clear", req.signature, NullData)

\* a call on the facade: fn is "create" or "run", by the function that makes it
Call(fn, by, arg) == [fn |-> fn, by |-> by, arg |-> arg]

InvokeCreate(by) == Append(calls, Call("create", by, NoEnvelope))

\* the remote call made a second time
InvokeRunAndRetry(by, kb_input) ==
    calls \o <<Call("run", by, kb_input), Call("run", by, kb_input)>>

\* await self.market_kb.run(kb_run_input): the one remote call of an operation
InvokeRun(by, kb_input) == Append(calls, Call("run", by, kb_input))

ExceptionTypes == {"ValidationError", "TypeError", "AttributeError", "ValueError",
                   "IndexError", "NameError", "JSONDecodeError",
                   "ConnectionError", "HTTPStatusError"}

\* an except clause that lets NameError through
IsExceptionButNotNameError(e) == e.type \in ExceptionTypes \ {"NameError"}

\* `except Exception as e` of store, query, clear and run
IsException(e) == e.type \in ExceptionTypes

\* the except clauses' results
StoreError(e) == Dict("error", Str(e), NoResults)

ClearError(e) == Dict("error", Str(e), NoResults)

RunError(e) == Dict("error", Str(e), NoResults)

\* query's except clause with another status word
QueryErrorStatusFailed(e) ==
    Dict("failed", <<"Error querying knowledge base: ">> \o Str(e), Results("list", <<>>))

QueryError(e) ==
    Dict("error", <<"Error querying knowledge base: ">> \o Str(e), Results("list", <<>>))

\* query, lines 83-103: the reshaping of the reply; [raised, value]
Returns(value) == [raised |-> NoFault, value |-> value]
Raises(e) == [raised |-> e, value |-> NoResult]

QueryReshape(response_data) ==
    IF response_data.status = "completed" /\ response_data.results.kind # "absent"
    THEN IF ~jsonImported
         THEN Raises(Fault("NameError", "name 'json' is not defined"))
         ELSE IF response_data.results.kind = "empty"
         THEN Raises(Fault("IndexError", "list index out of range"))
         ELSE IF response_data.results.kind = "malformed"
         THEN Raises(Fault("JSONDecodeError", "Expecting value"))
         ELSE IF response_data.results.data = <<>>
         THEN Returns(Dict("success",
                           <<"No relevant information found for your query.">>,
                           Results("list", <<>>)))
         ELSE Returns(Dict("success", NoMessage,
                           Results("json", response_data.results.data)))
    ELSE Returns(Dict(IF response_data.status = Absent THEN "error"
                      ELSE response_data.status,
                      IF response_data.message = NoMessage
                      THEN <<"Unknown error in knowledge base query">>
                      ELSE response_data.message,
                      Results("list", <<>>)))

----------------------------------------------------------------------------
(* run.py: run, lines 133-137: the lookup of func_name on the agent *)

\* a lookup that falls back to clear for a name it does not know
GetAttrDefaultsToClear(req) ==
    IF req.func_name \in Operations
    THEN [found |-> TRUE, method |-> req.func_name, truthy |-> TRUE]
    ELSE [found |-> TRUE, method |-> "clear", truthy |-> TRUE]

\* getattr(agent, name): found or AttributeError; what the attribute is
GetAttr(req) ==
    IF req.func_name \in Operations \cup {"_create_kb_input"}
    THEN [found |-> TRUE, method |-> req.func_name, truthy |-> TRUE]
    ELSE IF req.func_name \in {"deployment", "market_kb"}
    THEN [found |-> TRUE, method |-> "<not callable>", truthy |-> TRUE]
    ELSE IF req.func_name = "consumer_id"
    THEN [found |-> TRUE, method |-> "<not callable>", truthy |-> req.consumer_id # ""]
    ELSE [found |-> FALSE, method |-> "<not callable>", truthy |-> FALSE]

\* the fault of lines 133-137 for a name that is none of the three operations
\* (NoFault for the three operations)
LookupFault(req) ==
    LET attr == GetAttr(req) IN
    IF ~attr.found
    THEN Fault("AttributeError", "'KnowledgeBaseAgent' object has no attribute")
    ELSE IF ~attr.truthy
    THEN Fault("ValueError", "Invalid function name: ")
    ELSE IF attr.method = "<not callable>"
    THEN Fault("TypeError", "object is not callable")
    ELSE IF attr.method = "_create_kb_input"
    THEN Fault("TypeError", "missing 1 required positional argument: 'signature'")
    ELSE NoFault

----------------------------------------------------------------------------
(* The state machine *)

Init ==
    /\ jsonImported \in BOOLEAN
    /\ pc = "idle"
    /\ module_run = NoRequest
    /\ op = "none"
    /\ kb_run_input = NoEnvelope
    /\ calls = <<>>
    /\ kb_response = NoReply
    /\ raised = NoFault
    /\ result = NoResult
    /\ escaped = NoFault

\* a function returns value to the caller of run
Finish(value) ==
    /\ pc' = "done"
    /\ result' = value
    /\ escaped' = NoFault

\* fault e is raised inside a try whose except clause returns error
Fail(error, e) ==
    /\ pc' = "done"
    /\ raised' = e
    /\ IF IsException(e)
       THEN result' = error /\ escaped' = NoFault
       ELSE result' = NoResult /\ escaped' = e

\* the fault of run's lines 128-131 before the facade is reached
EntryFault(req) ==
    IF ~req.well_formed
    THEN Fault("ValidationError", "AgentRunInput: Field required")
    ELSE IF InputSchemaFault(req) # NoFault
    THEN InputSchemaFault(req)
    ELSE IF req.kb_deployments = 0
    THEN Fault("IndexError", "list index out of range")
    ELSE NoFault

\* run, lines 128-131: validate the request, build the agent, call create
Run(req) ==
    /\ pc = "idle"
    /\ module_run' = req
    /\ IF EntryFault(req) # NoFault
       THEN /\ Fail(RunError(EntryFault(req)), EntryFault(req))
            /\ UNCHANGED calls
       ELSE /\ calls' = InvokeCreate("run")
            /\ pc' = "await_create"
            /\ UNCHANGED <<raised, result, escaped>>
    /\ UNCHANGED <<jsonImported, op, kb_run_input, kb_response>>

\* line 131: create raises
CreateRaises(e) ==
    /\ pc = "await_create"
    /\ Fail(RunError(e), e)
    /\ UNCHANGED <<jsonImported, module_run, op, kb_run_input, calls, kb_response>>

\* line 131: create returns; lines 133-137 look the name up and call the
\* method, which runs to its first await (or to its return)
CreateReturns ==
    /\ pc = "await_create"
    /\ LET req == module_run
           method == GetAttr(req).method
       IN
       IF LookupFault(req) # NoFault
       THEN /\ Fail(RunError(LookupFault(req)), LookupFault(req))
            /\ UNCHANGED <<op, kb_run_input, calls>>
       ELSE /\ op' = method
            /\ IF method = "store"
               THEN IF StoreInputFault(req.func_input_data) # NoFault
                    THEN /\ Fail(StoreError(StoreInputFault(req.func_input_data)), StoreInputFault(req.func_input_data))
                         /\ UNCHANGED <<kb_run_input, calls>>
                    ELSE /\ kb_run_input' = StoreKbInput(req)
                         /\ calls' = InvokeRun("store", StoreKbInput(req))
                         /\ pc' = "await_store_run"
                         /\ UNCHANGED <<raised, result, escaped>>
               ELSE IF method = "query"
               THEN IF QueryInputFault(req.func_input_data) # NoFault
                    THEN /\ Fail(QueryError(QueryInputFault(req.func_input_data)), QueryInputFault(req.func_input_data))
                         /\ UNCHANGED <<kb_run_input, calls>>
                    ELSE /\ kb_run_input' = QueryKbInput(req)
                         /\ calls' = InvokeCreate("query")
                         /\ pc' = "await_query_create"
                         /\ UNCHANGED <<raised, result, escaped>>
               ELSE /\ kb_run_input' = ClearKbInput(req)
                    /\ calls' = InvokeRun("clear", ClearKbInput(req))
                    /\ pc' = "await_clear_run"
                    /\ UNCHANGED <<raised, result, escaped>>
    /\ UNCHANGED <<jsonImported, module_run, kb_response>>

\* store, line 49: run raises
StoreRunRaises(e) ==
    /\ pc = "await_store_run"
    /\ Fail(StoreError(e), e)
    /\ UNCHANGED <<jsonImported, module_run, op, kb_run_input, calls, kb_response>>

\* store, lines 49-51: run returns; the reply's dump is returned as it is
StoreRunReturns(reply) ==
    /\ pc = "await_store_run"
    /\ kb_response' = reply
    /\ Finish(reply)
    /\ UNCHANGED <<jsonImported, module_run, op, kb_run_input, calls, raised>>

\* query, line 75: create raises
QueryCreateRaises(e) ==
    /\ pc = "await_query_create"
    /\ Fail(QueryError(e), e)
    /\ UNCHANGED <<jsonImported, module_run, op, kb_run_input, calls, kb_response>>

\* query, lines 75-76: create returns, run is called
QueryCreateReturns ==
    /\ pc = "await_query_create"
    /\ calls' = InvokeRun("query", kb_run_input)
    /\ pc' = "await_query_run"
    /\ UNCHANGED <<jsonImported, module_run, op, kb_run_input, kb_response,
                   raised, result, escaped>>

\* query, line 76: run raises
QueryRunRaises(e) ==
    /\ pc = "await_query_run"
    /\ Fail(QueryError(e), e)
    /\ UNCHANGED <<jsonImported, module_run, op, kb_run_input, calls, kb_response>>

\* query, lines 76-111: run returns and the reply is reshaped
QueryRunReturns(reply) ==
    /\ pc = "await_query_run"
    /\ kb_response' = reply
    /\ IF QueryReshape(reply).raised # NoFault
       THEN Fail(QueryError(QueryReshape(reply).raised), QueryReshape(reply).raised)
       ELSE Finish(QueryReshape(reply).value) /\ UNCHANGED raised
    /\ UNCHANGED <<jsonImported, module_run, op, kb_run_input, calls>>

\* clear, line 118: run raises
ClearRunRaises(e) ==
    /\ pc = "await_clear_run"
    /\ Fail(ClearError(e), e)
    /\ UNCHANGED <<jsonImported, module_run, op, kb_run_input, calls, kb_response>>

\* clear, lines 118-119: run returns; the reply's dump is returned as it is
ClearRunReturns(reply) ==
    /\ pc = "await_clear_run"
    /\ kb_response' = reply
    /\ Finish(reply)
    /\ UNCHANGED <<jsonImported, module_run, op, kb_run_input, calls, raised>>

\* the caller has its result; nothing of the request is kept
Return ==
    /\ pc = "done"
    /\ pc' = "idle"
    /\ module_run' = NoRequest
    /\ op' = "none"
    /\ kb_run_input' = NoEnvelope
    /\ calls' = <<>>
    /\ kb_response' = NoReply
    /\ raised' = NoFault
    /\ result' = NoResult
    /\ escaped' = NoFault
    /\ UNCHANGED jsonImported

Next ==
    \/ \E req \in Requests : Run(req)
    \/ \E e \in TransportFaults : CreateRaises(e)
    \/ CreateReturns
    \/ \E e \in TransportFaults : StoreRunRaises(e)
    \/ \E reply \in Replies : StoreRunReturns(reply)
    \/ \E e \in TransportFaults : QueryCreateRaises(e)
    \/ QueryCreateReturns
    \/ \E e \in TransportFaults : QueryRunRaises(e)
    \/ \E reply \in Replies : QueryRunReturns(reply)
    \/ \E e \in TransportFaults : ClearRunRaises(e)
    \/ \E reply \in Replies : ClearRunReturns(reply)
    \/ Return

Spec == Init /\ [][Next]_vars

TypeOK ==
    /\ jsonImported \in BOOLEAN
    /\ pc \in {"idle", "await_create", "await_store_run", "await_query_create",
               "await_query_run", "await_clear_run", "done"}
    /\ op \in Operations \cup {"none"}
    /\ Len(calls) <= 3
    /\ (pc = "idle") = (module_run = NoRequest)
    /\ (pc = "done") = (result # NoResult \/ escaped # NoFault)

----------------------------------------------------------------------------
(* Properties *)

Range(f) == {f[i] : i \in DOMAIN f}
RunCallsMade == SelectSeq(calls, LAMBDA c : c.fn = "run")
CreateCallsMade == SelectSeq(calls, LAMBDA c : c.fn = "create")
CallsMadeBy(by) == SelectSeq(calls, LAMBDA c : c.by = by)
EntryCreate == Call("create", "run", NoEnvelope)
InFlight == pc # "idle"
UnknownName == InFlight /\ module_run.func_name \notin Operations
Mentions(message, piece) == piece \in Range(message)
Data == module_run.func_input_data

\* C1: a request whose func_name is none of store, query, clear is answered
\* with status "error" and a message that mentions an invalid function name.
\* Stated for the requests that pass run's validation and whose create
\* returned, so that the lookup of the name is what answers.
C1_InvalidNameMessage ==
    (pc = "done" /\ UnknownName /\ EntryFault(module_run) = NoFault
        /\ raised \notin TransportFaults)
    => /\ result.status = "error"
       /\ Mentions(result.message, "Invalid function name: ")

\* C2 as claimed: for a func_name that is none of store, query, clear no call
\* on the facade is made at any point of the request, neither create nor run,
\* and no envelope is built.
C2_NoFacadeCallAtAll ==
    UnknownName => calls = <<>> /\ kb_run_input = NoEnvelope

\* C2 as amended: for a func_name that is none of store, query, clear the
\* facade's run is never invoked and no envelope is built; the only facade
\* call is run's own create (line 131), made once before the name is looked
\* up when the request passes run's validation, and not at all otherwise.
C2_NoRunNoEnvelope ==
    UnknownName
    => /\ kb_run_input = NoEnvelope
       /\ RunCallsMade = <<>>
       /\ op = "none"
       /\ calls = IF EntryFault(module_run) = NoFault THEN <<EntryCreate>> ELSE <<>>

C2_Witness ==
    /\ pc = "done"
    /\ module_run.func_name = "_create_kb_input"
    /\ calls = <<EntryCreate>>
    /\ raised.type = "TypeError"
    /\ result.status = "error"

SpecRejectsQuery(data) ==
    \/ data.kind # "map"
    \/ data.query \in {Absent, NotAString, ""}
    \/ data.top_k.t = "str_other"
    \/ data.top_k.t \in {"int", "str_numeral"} /\ data.top_k.v <= 0

\* C4: when the backend's reply to a valid query (non-empty query, positive
\* or absent top_k) reports success (status "completed", results holding an
\* encoded empty data sequence), query returns status "success", results []
\* and a non-empty message.
C4_EmptyDataIsSuccess ==
    (pc = "done" /\ op = "query" /\ ~SpecRejectsQuery(Data)
        /\ kb_response.status = "completed"
        /\ kb_response.results = Results("encoded", <<>>))
    => /\ result.status = "success"
       /\ result.results = Results("list", <<>>)
       /\ result.message # NoMessage

\* C5: no fault propagates to the caller of run; whenever a step raised a
\* fault (validation, create, run, decoding of the reply), the result has
\* status "error" and its message contains the fault's text.
C5_FaultsBecomeErrorResults ==
    /\ escaped = NoFault
    /\ (pc = "done" /\ raised # NoFault)
       => /\ result.status = "error"
          /\ Mentions(result.message, raised.text)

C5_Witness ==
    /\ pc = "done"
    /\ op = "query"
    /\ raised.type = "JSONDecodeError"
    /\ result = QueryError(raised)
    /\ escaped = NoFault

\* C6 as claimed: every result returned to the caller has status "success"
\* or "error".
C6_StatusIsSuccessOrError ==
    pc = "done" => result.status \in {"success", "error"}

\* C6 as amended: every result returned to the caller has status "success" or
\* "error", or carries the status field of the backend's reply as the backend
\* gave it: store and clear return the reply as it is; query returns
\* "success" or "error" for a "completed" reply with a results field and
\* passes any other reply's status on ("error" if the reply has none).
C6_StatusOrBackendStatus ==
    pc = "done"
    => \/ result.status \in {"success", "error"}
       \/ /\ kb_response # NoReply
          /\ result.status = kb_response.status
          /\ op = "query" =>
                ~(kb_response.status = "completed"
                    /\ kb_response.results.kind # "absent")

C6_Witness ==
    /\ pc = "done"
    /\ op = "query"
    /\ kb_response.status = "pending"
    /\ result.status = "pending"

\* the payloads QueryInput rejects
CodeRejectsQuery(data) ==
    \/ data.kind # "map"
    \/ data.query \in {Absent, NotAString}
    \/ data.top_k.t = "str_other"

QueryRejected ==
    /\ pc = "done"
    /\ result.status = "error"
    /\ CallsMadeBy("query") = <<>>
    /\ kb_run_input = NoEnvelope

\* C7 as claimed: a query payload with query missing or empty, or with a
\* top_k that is no positive integer, is answered with status "error"
\* without a call on the facade.
C7_SpecSchemaEnforced ==
    (op = "query" /\ SpecRejectsQuery(Data)) => QueryRejected

\* C7 as amended: a query payload that is null, or whose query is missing or
\* no string, or whose top_k does not coerce to an integer, is answered with
\* status "error" without a call on the facade; every other payload, an
\* empty query or a zero or negative top_k included, is sent to the backend.
C7_CodeSchemaEnforced ==
    op = "query"
    => IF CodeRejectsQuery(Data)
       THEN QueryRejected
       ELSE /\ CallsMadeBy("query") # <<>>
            /\ kb_run_input.func_name = "search"
            /\ kb_run_input.func_input_data.query = Data.query

C7_Witness ==
    /\ op = "query"
    /\ Data.kind = "map"
    /\ Data.query = Absent
    /\ Data.top_k = TopKInt(1)
    /\ QueryRejected

\* C8: the envelope query sends to the backend's search function carries
\* top_k 2 when the payload has none and the payload's own top_k when it has
\* one (an integer as it is, a numeral as the integer it denotes).
C8_TopKPassedThrough ==
    \A c \in Range(calls) :
        (c.fn = "run" /\ c.by = "query")
        => /\ c.arg.func_name = "search"
           /\ c.arg.func_input_data.top_k.t = "int"
           /\ c.arg.func_input_data.top_k.v =
                 IF Data.top_k.t = "absent" THEN DefaultTopK ELSE Data.top_k.v

C8_Witness ==
    /\ pc = "await_query_run"
    /\ Data.top_k = TopKAbsent
    /\ calls[3].arg.func_input_data.top_k = TopKInt(DefaultTopK)

\* C9: every call to clear invokes the backend's clear function once with
\* func_input_data null, whatever the request carried, and returns a result
\* with the status the backend's reply has.
C9_ClearSendsNoPayload ==
    op = "clear"
    => /\ CallsMadeBy("clear") = <<Call("run", "clear", kb_run_input)>>
       /\ kb_run_input.func_name = "clear"
       /\ kb_run_input.func_input_data = NullData
       /\ (pc = "done" /\ kb_response # NoReply)
          => result.status = kb_response.status

C9_Witness ==
    /\ pc = "done"
    /\ op = "clear"
    /\ Data.kind = "map"
    /\ Data.text = "hello world"
    /\ kb_response.status = "pending"
    /\ result.status = "pending"

AwaitingRun == pc \in {"await_store_run", "await_query_run", "await_clear_run"}

\* C10: the facade's run is invoked at most once for a request, and when that
\* call raises, the request ends there with an error result and no further
\* call on the facade.
C10_NoRetry ==
    /\ [](Len(RunCallsMade) <= 1)
    /\ [][(AwaitingRun /\ raised' \in TransportFaults)
            => (pc' = "done" /\ calls' = calls /\ result'.status = "error")]_vars

C10_Witness ==
    /\ pc = "done"
    /\ op = "store"
    /\ raised \in TransportFaults
    /\ Len(RunCallsMade) = 1
    /\ result.status = "error"

====
